---------------------------- MODULE Spec2Model ----------------------------
(***************************************************************************)
(* State-machine model of agent.py: the worker process, the FunctionAgent  *)
(* instances it constructs for connected participants, and the three       *)
(* function tools (list_passes, check_balances, purchase_passes) with      *)
(* their requests to the wallet API.  A tool call is split at its awaits:  *)
(* one step runs from the call to the first request, one step handles each *)
(* response.                                                               *)
(***************************************************************************)
EXTENDS Integers, Naturals, Sequences, FiniteSets, TLC

(* ------------------------------ bounds -------------------------------- *)
MaxBal == 2
MaxQty == 2
NumTokens == 2
NumPasses == 2

(* ------------------------- program constants -------------------------- *)
HTTP_OK == 200

Agents == {1, 2}
Tokens == 1..NumTokens
PassIds == 1..NumPasses
Quantities == (-1)..MaxQty
Providers == {"DDOT", "SMART", "Regional"}
WalletTypes == {"Subsidy", "Personal"}
WalletNames == <<"subsidy", "personal">>

(* Responses the backend can give.  402 and 500 stand for every non-200.  *)
Statuses == {HTTP_OK, 402, 500}
ListBodies == SUBSET PassIds
BalanceBodies == 0..MaxBal
PurchaseBodies == {"{confirmation}", "{error}", "not json"}

(* Contents support_agent.yaml can have when the agent is constructed.    *)
PromptFiles == {"missing", "unreadable", "bad_yaml", "empty", "list",
                "scalar", "map_without_instructions", "map_with_instructions"}

VARIABLES
  apiEnv,        \* TRUE iff MYRIDE_WALLET_API is in os.environ
  promptFile,    \* what support_agent.yaml holds
  worker,        \* "init" | "running"
  agent,         \* agent[a]: "absent" | "serving" | "failed"
  instructions,  \* instructions[a]: what load_prompt gave the constructor
  attributes,    \* attributes[a]: the auth_key attribute of the participant
  auth_key,      \* auth_key[a]: self.auth_key
  pc,            \* pc[a]: position of the running tool call
  op,            \* op[a]: the tool being run
  headers,       \* headers[a]: the bearer token in the local `headers`
  args,          \* args[a]: the call's arguments
  i,             \* i[a]: check_balances' loop index into WalletNames
  balances,      \* balances[a]: check_balances' local list
  sent,          \* sent[a]: requests issued by the running call
  recv,          \* recv[a]: responses received by the running call
  result,        \* result[a]: outcome of the call (returned value or exception)
  flow           \* flow[a]: tool results the current purchase flow has seen

vars == <<apiEnv, promptFile, worker, agent, instructions, attributes, auth_key, pc, op,
          headers, args, i, balances, sent, recv, result, flow>>

NoResult == [kind |-> "none", exc |-> "", msg |-> "", status |-> 0, value |-> <<>>]
NoFlow == [listed |-> {}, bal |-> <<>>]

Returned(v) ==
  [kind |-> "return", exc |-> "", msg |-> "", status |-> 0, value |-> v]

(* An exception leaving the tool.  status is 0 when the exception carries  *)
(* no HTTP status; value stays empty: no raise in agent.py carries a body. *)
Raised(e, m, st) ==
  [kind |-> "raise", exc |-> e, msg |-> m, status |-> st, value |-> <<>>]

(* ------------------------------ load_prompt --------------------------- *)
(* open(): the file is there and readable, or the exception open raises.  *)
OpenFile(f) ==
  CASE f = "missing" -> [ok |-> FALSE, exc |-> "FileNotFoundError"]
    [] f = "unreadable" -> [ok |-> FALSE, exc |-> "PermissionError"]
    [] OTHER -> [ok |-> TRUE, exc |-> ""]

(* yaml.safe_load: the Python value the document parses to.               *)
SafeLoad(f) ==
  CASE f = "bad_yaml" -> [ok |-> FALSE, type |-> "", keys |-> {}]
    [] f = "empty" -> [ok |-> TRUE, type |-> "NoneType", keys |-> {}]
    [] f = "list" -> [ok |-> TRUE, type |-> "list", keys |-> {}]
    [] f = "scalar" -> [ok |-> TRUE, type |-> "str", keys |-> {}]
    [] f = "map_without_instructions" -> [ok |-> TRUE, type |-> "dict", keys |-> {"name"}]
    [] OTHER -> [ok |-> TRUE, type |-> "dict", keys |-> {"instructions"}]

CaughtByLoadPrompt == {"FileNotFoundError", "YAMLError"}

LoadOutcome(k, v, e, p) == [kind |-> k, value |-> v, exc |-> e, printed |-> p]

HandleLoadError(e) ==
  IF e \in CaughtByLoadPrompt
    THEN LoadOutcome("return", "", "", TRUE)
    ELSE LoadOutcome("raise", "", e, FALSE)

load_prompt(f) ==
  IF ~OpenFile(f).ok THEN HandleLoadError(OpenFile(f).exc)
  ELSE IF ~SafeLoad(f).ok THEN HandleLoadError("YAMLError")
  ELSE IF SafeLoad(f).type # "dict" THEN HandleLoadError("AttributeError")
  ELSE IF "instructions" \in SafeLoad(f).keys
    THEN LoadOutcome("return", "text", "", FALSE)
    ELSE LoadOutcome("return", "", "", FALSE)

(* ------------------------------- startup ------------------------------ *)
Init ==
  /\ apiEnv \in BOOLEAN
  /\ promptFile \in PromptFiles
  /\ worker = "init"
  /\ agent = [a \in Agents |-> "absent"]
  /\ instructions = [a \in Agents |-> ""]
  /\ attributes = [a \in Agents |-> 0]
  /\ auth_key = [a \in Agents |-> 0]
  /\ pc = [a \in Agents |-> "idle"]
  /\ op = [a \in Agents |-> ""]
  /\ headers = [a \in Agents |-> 0]
  /\ args = [a \in Agents |-> <<>>]
  /\ i = [a \in Agents |-> 0]
  /\ balances = [a \in Agents |-> <<>>]
  /\ sent = [a \in Agents |-> <<>>]
  /\ recv = [a \in Agents |-> <<>>]
  /\ result = [a \in Agents |-> NoResult]
  /\ flow = [a \in Agents |-> NoFlow]

(* agents.cli.run_app: the worker starts; nothing reads the environment.  *)
run_app ==
  /\ worker = "init"
  /\ worker' = "running"
  /\ UNCHANGED <<apiEnv, promptFile, agent, instructions, attributes, auth_key,
                 pc, op, headers, args, i, balances, sent, recv, result, flow>>

(* entrypoint: a participant connects and FunctionAgent(username,         *)
(* auth_key) is built; __init__ stores auth_key, then calls load_prompt.   *)
entrypoint(a, key) ==
  /\ worker = "running"
  /\ agent[a] = "absent"
  /\ attributes' = [attributes EXCEPT ![a] = key]
  /\ auth_key' = [auth_key EXCEPT ![a] = key]
  /\ IF load_prompt(promptFile).kind = "return"
       THEN /\ agent' = [agent EXCEPT ![a] = "serving"]
            /\ instructions' = [instructions EXCEPT ![a] = load_prompt(promptFile).value]
       ELSE /\ agent' = [agent EXCEPT ![a] = "failed"]
            /\ UNCHANGED instructions
  /\ UNCHANGED <<apiEnv, promptFile, worker, pc, op, headers, args, i,
                 balances, sent, recv, result, flow>>


(* ------------------------- pieces of the tools ------------------------ *)
(* A header derived once from the participant's attribute and reused.     *)
BuildHeadersCached(a) == attributes[a]

(* 'authorization': f"Bearer {self.auth_key}", evaluated in each call.    *)
BuildHeaders(a) == auth_key[a]

(* params = {'limit': '100', 'offset': '0', 'show_all': 'true'}           *)
QueryParams == [limit |-> "100", offset |-> "0", show_all |-> "true"]

Get(a, path, query) ==
  [method |-> "GET", path |-> path, query |-> query, params |-> QueryParams,
   tok |-> BuildHeaders(a), data |-> <<>>]

(* data = {"wallet_type": ..., "pass_ids": [{"pass_id":..., "quantity":...}]} *)
Post(a, pass_id, type_of_wallet, quantity) ==
  [method |-> "POST", path |-> "/api/rider/passes", query |-> "", params |-> <<>>,
   tok |-> BuildHeaders(a),
   data |-> <<type_of_wallet, pass_id, quantity>>]

WalletPath(n) == "api/rider/" \o WalletNames[n] \o "-wallet"

(* A wallet read whose status is not looked at.                           *)
WalletStatusIgnored(status) == status = status

(* if response.status == 200, one test per tool.                          *)
PassesStatusOk(status) == status = HTTP_OK
WalletStatusOk(status) == status = HTTP_OK
PurchaseStatusOk(status) == status = HTTP_OK

(* The message of check_balances' exception; the f-string has the wallet  *)
(* name written out, not {i}.                                             *)
WalletFailureMessage(n) == "Failed to get the user's subsidy wallet"

(* response.json(): the parsed document, or a decoding error.             *)
ParseJson(body) ==
  CASE body = "{confirmation}" -> [ok |-> TRUE, doc |-> "confirmation"]
    [] body = "{error}" -> [ok |-> TRUE, doc |-> "error"]
    [] OTHER -> [ok |-> FALSE, doc |-> ""]

(* The part of every tool from its call to its first request: the headers *)
(* are built, then aiohttp.ClientSession(os.environ['MYRIDE_WALLET_API'])  *)
(* raises KeyError when the variable is unset, else the request goes out.  *)
BeginCall(a, tool, arguments, request, waitAt) ==
  /\ agent[a] = "serving"
  /\ pc[a] = "idle"
  /\ op' = [op EXCEPT ![a] = tool]
  /\ args' = [args EXCEPT ![a] = arguments]
  /\ headers' = [headers EXCEPT ![a] = BuildHeaders(a)]
  /\ recv' = [recv EXCEPT ![a] = <<>>]
  /\ IF apiEnv
       THEN /\ sent' = [sent EXCEPT ![a] = <<request>>]
            /\ pc' = [pc EXCEPT ![a] = waitAt]
            /\ result' = [result EXCEPT ![a] = NoResult]
       ELSE /\ sent' = [sent EXCEPT ![a] = <<>>]
            /\ pc' = [pc EXCEPT ![a] = "done"]
            /\ result' = [result EXCEPT ![a] = Raised("KeyError", "MYRIDE_WALLET_API", 0)]
  /\ UNCHANGED <<apiEnv, promptFile, worker, agent, instructions, attributes, auth_key, flow>>

(* ------------------------------ list_passes --------------------------- *)
list_passes(a, transit_provider) ==
  /\ BeginCall(a, "list_passes", <<transit_provider>>,
               Get(a, "/api/passes", transit_provider), "await_passes")
  /\ UNCHANGED <<i, balances>>

list_passes_response(a, status, body) ==
  /\ pc[a] = "await_passes"
  /\ recv' = [recv EXCEPT ![a] = Append(@, [status |-> status, body |-> body])]
  /\ result' = [result EXCEPT ![a] =
       IF PassesStatusOk(status)
         THEN Returned(<<body>>)
         ELSE Raised("Exception", "Failed to list available passes", status)]
  /\ pc' = [pc EXCEPT ![a] = "done"]
  /\ UNCHANGED <<apiEnv, promptFile, worker, agent, instructions, attributes, auth_key, op,
                 headers, args, i, balances, sent, flow>>

(* ----------------------------- check_balances ------------------------- *)
check_balances(a) ==
  /\ BeginCall(a, "check_balances", <<>>, Get(a, WalletPath(1), ""), "await_wallet")
  /\ balances' = [balances EXCEPT ![a] = <<>>]
  /\ i' = [i EXCEPT ![a] = IF apiEnv THEN 1 ELSE 0]

(* One turn of `for i in ['subsidy', 'personal']` after its response.     *)
check_balances_response(a, status, body) ==
  /\ pc[a] = "await_wallet"
  /\ recv' = [recv EXCEPT ![a] = Append(@, [status |-> status, body |-> body])]
  /\ IF WalletStatusOk(status)
       THEN /\ balances' = [balances EXCEPT ![a] = Append(@, body)]
            /\ IF i[a] < Len(WalletNames)
                 THEN /\ i' = [i EXCEPT ![a] = @ + 1]
                      /\ sent' = [sent EXCEPT ![a] =
                           Append(@, [Get(a, WalletPath(i[a] + 1), "")
                                        EXCEPT !.tok = headers[a]])]
                      /\ UNCHANGED <<pc, result>>
                 ELSE /\ result' = [result EXCEPT ![a] = Returned(Append(balances[a], body))]
                      /\ pc' = [pc EXCEPT ![a] = "done"]
                      /\ UNCHANGED <<i, sent>>
       ELSE /\ result' = [result EXCEPT ![a] =
                 Raised("Exception", WalletFailureMessage(i[a]), status)]
            /\ pc' = [pc EXCEPT ![a] = "done"]
            /\ UNCHANGED <<i, balances, sent>>
  /\ UNCHANGED <<apiEnv, promptFile, worker, agent, instructions, attributes, auth_key, op,
                 headers, args, flow>>

(* ----------------------------- purchase_passes ------------------------ *)
purchase_passes(a, pass_id, type_of_wallet, quantity) ==
  /\ BeginCall(a, "purchase_passes", <<pass_id, type_of_wallet, quantity>>,
               Post(a, pass_id, type_of_wallet, quantity), "await_purchase")
  /\ UNCHANGED <<i, balances>>

(* The body is decoded for the log line before the status is looked at.   *)
purchase_passes_response(a, status, body) ==
  /\ pc[a] = "await_purchase"
  /\ recv' = [recv EXCEPT ![a] = Append(@, [status |-> status, body |-> body])]
  /\ result' = [result EXCEPT ![a] =
       IF ~ParseJson(body).ok
         THEN Raised("JSONDecodeError", "", 0)
       ELSE IF PurchaseStatusOk(status)
         THEN Returned(<<ParseJson(body).doc>>)
         ELSE Raised("Exception", "Failed to purchase pass", status)]
  /\ pc' = [pc EXCEPT ![a] = "done"]
  /\ UNCHANGED <<apiEnv, promptFile, worker, agent, instructions, attributes, auth_key, op,
                 headers, args, i, balances, sent, flow>>

(* session.get / session.post raises: no connection, reset, timeout.      *)
transport_failure(a) ==
  /\ pc[a] \in {"await_passes", "await_wallet", "await_purchase"}
  /\ result' = [result EXCEPT ![a] = Raised("ClientError", "", 0)]
  /\ pc' = [pc EXCEPT ![a] = "done"]
  /\ UNCHANGED <<apiEnv, promptFile, worker, agent, instructions, attributes, auth_key, op,
                 headers, args, i, balances, sent, recv, flow>>

(* ------------------------ the conversation around --------------------- *)
(* What the flow knows after a tool's outcome went back to the model: a    *)
(* listing adds its pass ids, a balance read gives the snapshot, a failed  *)
(* step or a purchase attempt ends the flow.                               *)
FlowAfter(f, tool, res) ==
  IF res.kind # "return" \/ tool = "purchase_passes" THEN NoFlow
  ELSE IF tool = "list_passes" THEN [f EXCEPT !.listed = @ \cup res.value[1]]
  ELSE [f EXCEPT !.bal = res.value]

(* @function_tool: the outcome of the call is handed to the model and the  *)
(* call's locals are gone.                                                 *)
tool_returns(a) ==
  /\ pc[a] = "done"
  /\ flow' = [flow EXCEPT ![a] = FlowAfter(@, op[a], result[a])]
  /\ pc' = [pc EXCEPT ![a] = "idle"]
  /\ op' = [op EXCEPT ![a] = ""]
  /\ headers' = [headers EXCEPT ![a] = 0]
  /\ args' = [args EXCEPT ![a] = <<>>]
  /\ i' = [i EXCEPT ![a] = 0]
  /\ balances' = [balances EXCEPT ![a] = <<>>]
  /\ sent' = [sent EXCEPT ![a] = <<>>]
  /\ recv' = [recv EXCEPT ![a] = <<>>]
  /\ result' = [result EXCEPT ![a] = NoResult]
  /\ UNCHANGED <<apiEnv, promptFile, worker, agent, instructions, attributes, auth_key>>

(* The user drops the purchase and starts over.                           *)
new_flow(a) ==
  /\ pc[a] = "idle"
  /\ flow[a] # NoFlow
  /\ flow' = [flow EXCEPT ![a] = NoFlow]
  /\ UNCHANGED <<apiEnv, promptFile, worker, agent, instructions, attributes, auth_key, pc,
                 op, headers, args, i, balances, sent, recv, result>>

(* The identity provider rotates the token between two calls: auth_key is  *)
(* a plain attribute of the instance.                                      *)
rotate_token(a, key) ==
  /\ agent[a] = "serving"
  /\ pc[a] = "idle"
  /\ key # auth_key[a]
  /\ auth_key' = [auth_key EXCEPT ![a] = key]
  /\ UNCHANGED <<apiEnv, promptFile, worker, agent, instructions, attributes,
                 pc, op, headers, args, i, balances, sent, recv, result, flow>>

(* --------------------------- specifications --------------------------- *)
(* One session, every argument and every response.  The prompt file is   *)
(* the well-formed one; the other files are covered by SpecConc.          *)
InitWithPrompt == Init /\ promptFile = "map_with_instructions"

Next ==
  \/ run_app
  \/ \E key \in Tokens : entrypoint(1, key)
  \/ \E p \in Providers : list_passes(1, p)
  \/ \E st \in Statuses, b \in ListBodies : list_passes_response(1, st, b)
  \/ check_balances(1)
  \/ \E st \in Statuses, b \in BalanceBodies : check_balances_response(1, st, b)
  \/ \E p \in PassIds, w \in WalletTypes, q \in Quantities : purchase_passes(1, p, w, q)
  \/ \E st \in Statuses, b \in PurchaseBodies : purchase_passes_response(1, st, b)
  \/ transport_failure(1)
  \/ tool_returns(1)
  \/ new_flow(1)
  \/ \E key \in Tokens : rotate_token(1, key)

Spec == InitWithPrompt /\ [][Next]_vars


(* Two sessions served by the same worker, their tool calls interleaved   *)
(* at every await; any prompt file, one argument and one body per tool.   *)
NextConc ==
  \/ run_app
  \/ \E a \in Agents, key \in Tokens : entrypoint(a, key)
  \/ \E a \in Agents : list_passes(a, "DDOT")
  \/ \E a \in Agents, st \in {HTTP_OK, 500} : list_passes_response(a, st, {})
  \/ \E a \in Agents : check_balances(a)
  \/ \E a \in Agents, st \in {HTTP_OK, 500} : check_balances_response(a, st, 0)
  \/ \E a \in Agents : purchase_passes(a, 1, "Personal", 1)
  \/ \E a \in Agents, st \in {HTTP_OK, 402} : purchase_passes_response(a, st, "{error}")
  \/ \E a \in Agents : transport_failure(a)
  \/ \E a \in Agents : tool_returns(a)
  \/ \E a \in Agents : new_flow(a)
  \/ \E a \in Agents, key \in Tokens : rotate_token(a, key)

SpecConc == Init /\ [][NextConc]_vars

(* ------------------------------ properties ---------------------------- *)
Requests(a) == {sent[a][k] : k \in 1..Len(sent[a])}
Posts(a) == {r \in Requests(a) : r.method = "POST"}
Gets(a, path) == {k \in 1..Len(sent[a]) : sent[a][k].method = "GET" /\ sent[a][k].path = path}
AllOk(responses) == \A k \in 1..Len(responses) : responses[k].status = HTTP_OK

(* The price the backend's listing gives a pass.                          *)
UnitPrice(pass_id) == pass_id

(* The Balance Evaluator's policy.                                        *)
BalanceEvaluator(subsidyBalance, personalBalance, unitPrice, quantity) ==
  LET cost == unitPrice * quantity IN
  IF subsidyBalance < cost /\ personalBalance < cost THEN "InsufficientFunds"
  ELSE IF subsidyBalance >= cost /\ personalBalance = 0 THEN "UseSubsidy"
  ELSE IF personalBalance >= cost /\ subsidyBalance = 0 THEN "UsePersonal"
  ELSE "AmbiguousChooseOne"

(* C1: a purchase request is sent only if, earlier in the same flow,      *)
(* list_passes returned the pass_id being purchased and check_balances     *)
(* succeeded; otherwise purchase_passes sends no request.                  *)
PurchaseOnlyAfterLookupAndBalances ==
  \A a \in Agents : \A r \in Posts(a) :
    r.data[2] \in flow[a].listed /\ flow[a].bal # <<>>

(* C2: check_balances never returns a partial result: it returns only     *)
(* when both wallet reads answered 200, the value then holds both          *)
(* balances in order; otherwise the call fails and carries no balance.     *)
BalancesAllOrNothing ==
  \A a \in Agents :
    /\ pc[a] = "await_wallet" => result[a].kind = "none"
    /\ pc[a] = "done" /\ op[a] = "check_balances" =>
         IF Len(recv[a]) = Len(WalletNames) /\ AllOk(recv[a])
           THEN result[a] = Returned(<<recv[a][1].body, recv[a][2].body>>)
           ELSE result[a].kind = "raise" /\ result[a].value = <<>>

(* C2 witness: the subsidy read answered 200, the personal read did not,   *)
(* and the call has ended.                                                 *)
SubsidyReadOkPersonalReadFailed ==
  \E a \in Agents :
    /\ pc[a] = "done" /\ op[a] = "check_balances"
    /\ Len(recv[a]) = 2
    /\ recv[a][1].status = HTTP_OK /\ recv[a][1].body > 0
    /\ recv[a][2].status # HTTP_OK
    /\ result[a].kind = "raise"

(* C3: purchase_passes rejects every quantity < 1 with a validation       *)
(* failure before any network call: no POST carries a quantity < 1.        *)
QuantityBelowOneNeverPosted ==
  \A a \in Agents : \A r \in Posts(a) : r.data[3] >= 1

(* C4: no tool retries: a finished list_passes has issued exactly one     *)
(* GET, a finished purchase_passes exactly one POST, a finished            *)
(* check_balances at most one GET per wallet.                              *)
ExactlyOneRequestPerCall ==
  \A a \in Agents : pc[a] = "done" =>
    /\ op[a] = "list_passes" => Cardinality(Gets(a, "/api/passes")) = 1 /\ Len(sent[a]) = 1
    /\ op[a] = "purchase_passes" => Len(sent[a]) = 1 /\ Posts(a) # {}
    /\ op[a] = "check_balances" =>
         \A n \in 1..Len(WalletNames) : Cardinality(Gets(a, WalletPath(n))) <= 1

(* The part of C4 that does not depend on the configuration: no call ever *)
(* issues a request a second time, and none is issued after a failure.     *)
NeverResends ==
  \A a \in Agents :
    /\ op[a] \in {"list_passes", "purchase_passes"} => Len(sent[a]) <= 1
    /\ op[a] = "check_balances" =>
         /\ Len(sent[a]) <= Len(WalletNames)
         /\ \A n \in 1..Len(WalletNames) : Cardinality(Gets(a, WalletPath(n))) <= 1
    /\ Len(sent[a]) <= Len(recv[a]) + 1
    /\ pc[a] = "done" /\ ~AllOk(recv[a]) => Len(sent[a]) = Len(recv[a])

(* C5: for purchase_passes a 200 response yields the parsed confirmation  *)
(* body, and any other status, whatever the body, yields a failure that    *)
(* carries the backend's status code and body.                             *)
PurchaseFailureCarriesStatusAndBody ==
  \A a \in Agents :
    pc[a] = "done" /\ op[a] = "purchase_passes" /\ Len(recv[a]) = 1 =>
      IF recv[a][1].status = HTTP_OK
        THEN ParseJson(recv[a][1].body).ok =>
               result[a] = Returned(<<ParseJson(recv[a][1].body).doc>>)
        ELSE /\ result[a].kind = "raise"
             /\ result[a].status = recv[a][1].status
             /\ result[a].value = <<recv[a][1].body>>

(* C6: when a wallet read answers a non-200 status, the failure of         *)
(* check_balances names the wallet whose read failed.                      *)
FailureNamesFailingWallet ==
  \A a \in Agents :
    pc[a] = "done" /\ op[a] = "check_balances" /\ result[a].exc = "Exception" =>
      result[a].msg = "Failed to get the user's " \o WalletNames[i[a]] \o " wallet"

(* C7: every request a tool issues carries the auth_key its own instance  *)
(* holds at that call, under any interleaving of two sessions and after a  *)
(* rotation between two calls.                                             *)
RequestCarriesOwnCurrentToken ==
  \A a \in Agents : \A r \in Requests(a) : r.tok = auth_key[a]

(* C7 witness: both sessions have a request out, they hold different       *)
(* tokens, and one of them holds a token rotated since it connected.       *)
TwoSessionsInFlightAfterRotation ==
  /\ sent[1] # <<>> /\ sent[2] # <<>>
  /\ pc[1] # "done" /\ pc[2] # "done"
  /\ auth_key[1] # auth_key[2]
  /\ auth_key[2] # attributes[2]
  /\ Len(sent[2]) = 2

MissingOrMalformed == {"missing", "bad_yaml", "empty", "list", "scalar"}

(* C8: for every prompt file that is missing or malformed (empty and       *)
(* non-mapping documents included) load_prompt returns the empty string    *)
(* and logs the condition: constructing the agent never fails.             *)
PromptFailureFallsBackToEmpty ==
  \A a \in Agents :
    agent[a] # "absent" /\ promptFile \in MissingOrMalformed =>
      /\ load_prompt(promptFile) = LoadOutcome("return", "", "", TRUE)
      /\ agent[a] = "serving"
      /\ instructions[a] = ""

(* C9: with the wallet API base URL unset no session ever serves tool      *)
(* calls, and no tool call fails because the variable is missing.          *)
MissingBaseUrlIsStartupFatal ==
  ~apiEnv =>
    \A a \in Agents : agent[a] # "serving" /\ result[a].exc # "KeyError"

(* C10: the wallet a purchase is sent with follows the Balance            *)
(* Evaluator's decision on the flow's balance snapshot: nothing is sent    *)
(* on InsufficientFunds, and UseSubsidy / UsePersonal fix the wallet.      *)
WalletFollowsBalanceEvaluator ==
  \A a \in Agents : \A r \in Posts(a) :
    flow[a].bal # <<>> /\ r.data[3] >= 1 =>
      LET decision == BalanceEvaluator(flow[a].bal[1], flow[a].bal[2],
                                       UnitPrice(r.data[2]), r.data[3])
      IN /\ decision # "InsufficientFunds"
         /\ decision = "UseSubsidy" => r.data[1] = "Subsidy"
         /\ decision = "UsePersonal" => r.data[1] = "Personal"

=============================================================================
